---- MODULE Spec2Model ----
(***************************************************************************)
(* Reversible-migration journal and undo engine (journal generation:       *)
(* migration.js + undo.js).  One migration run, followed by undo           *)
(* invocations against the journal the run left on disk.                   *)
(*                                                                         *)
(* Values keep their JavaScript/BSON type where the code converts them:    *)
(* a document identifier is an ObjectId in the store and in memory, a hex  *)
(* string once it went through JSON.stringify/JSON.parse, and an ObjectId  *)
(* again only where undo.js wraps it in `new ObjectId(...)`.               *)
(*                                                                         *)
(* runMigration is modelled as any sequence of at most MaxOps calls of     *)
(* insertDocument / updateDocuments (the shipped sequence insert, insert,  *)
(* update is one of them).  The store may reject single inserts, updates,  *)
(* deletes and replaces, and writeFileSync may fail at open or at write;   *)
(* failures of connect, find and close are not modelled.  writeFileSync    *)
(* opens the journal with flag 'w', so the file is empty between the open  *)
(* and the completed write.                                                *)
(*                                                                         *)
(* The legacy generation (backup collection + updateMany, undo by          *)
(* deleteMany and upsert from the backup) is a second specification,       *)
(* SpecLegacy, over the same store.                                        *)
(***************************************************************************)
EXTENDS Integers, Sequences, FiniteSets, TLC

\* ---------------------------------------------------------------- bounds
\* documents present in collection z before the run (identifiers 1..NPre)
NPre == 2
\* planned operations (insertDocument / updateDocuments calls) of one run
MaxOps == 2
\* store rejections and journal-write failures injected in one behaviour
MaxFaults == 1
\* undo invocations after the run
MaxUndos == 2

MaxId == NPre + MaxOps
Ids == 1..MaxId
\* runMigration inserts into x and y (y stands for both) and updates z
Colls == {"y", "z"}
InsertColls == {"y"}
UpdateColls == {"z"}

\* ---------------------------------------------------------------- values
Undefined == "undefined"
\* runMigration: new Date(TAG); the value the update instruction and the
\* inserted documents carry
DateOfTag == "Date(TAG)"

NoId == [t |-> "undefined", n |-> 0]
NoFilter == [t |-> "none", n |-> 0]
ObjectId(n) == [t |-> "oid", n |-> n]
HexString(n) == [t |-> "hex", n |-> n]

NoDoc == [_id |-> NoId, name |-> Undefined, status |-> Undefined,
          createdAt |-> Undefined, updatedAt |-> Undefined]

\* the document literals runMigration inserts (no _id: the driver assigns one)
NewDoc == [_id |-> NoId, name |-> "Y1", status |-> Undefined,
           createdAt |-> DateOfTag, updatedAt |-> Undefined]

\* a document of z before the run
PreDoc(n, st) == [_id |-> ObjectId(n), name |-> "Z", status |-> st,
                  createdAt |-> Undefined, updatedAt |-> Undefined]

\* { $set: { status: "new", updatedAt: new Date(TAG) } }
UpdateInstr == [status |-> "new", updatedAt |-> DateOfTag]
NoUpdate == [status |-> Undefined, updatedAt |-> Undefined]

\* filters { status: <v> } the run may pass to updateDocuments
Filters == {"old", "new"}

EmptyColl == [n \in Ids |-> NoDoc]

\* ------------------------------------------------------ JSON conversions
\* Date.prototype.toJSON -> ISO string (a string, no longer a Date)
JSONValue(v) == IF v = DateOfTag THEN "iso(TAG)" ELSE v

\* ObjectId.prototype.toJSON -> hex string
JSONId(id) == IF id.t = "oid" THEN HexString(id.n) ELSE id

JSONDoc(d) == [_id |-> JSONId(d._id), name |-> d.name, status |-> d.status,
               createdAt |-> JSONValue(d.createdAt),
               updatedAt |-> JSONValue(d.updatedAt)]

JSONUpdate(u) == [status |-> u.status, updatedAt |-> JSONValue(u.updatedAt)]

JSONEntry(e) == [collection |-> e.collection, action |-> e.action,
                 status |-> e.status, _id |-> JSONId(e._id),
                 document |-> JSONDoc(e.document),
                 previous |-> JSONDoc(e.previous),
                 update |-> JSONUpdate(e.update), error |-> e.error]

\* JSON.parse(JSON.stringify(migrationLog)).actions
JSONActions(log) == [i \in 1..Len(log) |-> JSONEntry(log[i])]

\* new ObjectId(<24-hex string>) -> the ObjectId with that value
NewObjectId(v) == ObjectId(v.n)

\* ------------------------------------------------------ store operations
\* collection.find(filter): a document matches { status: v }
Matches(d, f) == d # NoDoc /\ d.status = f

RECURSIVE FindFrom(_, _, _)
FindFrom(coll, f, n) ==
    IF n > MaxId THEN <<>>
    ELSE IF Matches(coll[n], f) THEN <<coll[n]>> \o FindFrom(coll, f, n + 1)
    ELSE FindFrom(coll, f, n + 1)

\* db.collection(c).find(filter).toArray(), natural (identifier) order
Find(s, c, f) == FindFrom(s[c], f, 1)

\* db.collection(c).insertOne(doc): the driver assigns _id = new ObjectId()
InsertOne(s, c, n, d) == [s EXCEPT ![c][n] = [d EXCEPT !._id = ObjectId(n)]]

\* $set applied to one document
ApplySet(d, u) == [d EXCEPT !.status = u.status, !.updatedAt = u.updatedAt]

\* mutant: updateMany({}, update) in place of updateOne({ _id }, update)
UpdateOne_many(s, c, id, u) ==
    [s EXCEPT ![c] = [n \in Ids |-> IF @[n] # NoDoc THEN ApplySet(@[n], u)
                                    ELSE NoDoc]]

\* db.collection(c).updateOne({ _id: id }, update)
UpdateOne(s, c, id, u) ==
    IF id.t = "oid" /\ s[c][id.n] # NoDoc
    THEN [s EXCEPT ![c][id.n] = ApplySet(@, u)]
    ELSE s

\* mutant: deleteMany({}) in place of deleteOne({ _id })
DeleteOne_many(s, c, id) == [s EXCEPT ![c] = EmptyColl]

\* mutant: the filter is dropped, deleteOne({}) removes the first document
DeleteOne_first(s, c, id) ==
    IF \E n \in Ids : s[c][n] # NoDoc
    THEN [s EXCEPT ![c][CHOOSE n \in Ids : s[c][n] # NoDoc
                                 /\ \A m \in Ids : s[c][m] # NoDoc => n <= m] = NoDoc]
    ELSE s

\* db.collection(c).deleteOne({ _id: id }); an absent document: no effect
DeleteOne(s, c, id) ==
    IF id.t = "oid" /\ s[c][id.n] # NoDoc
    THEN [s EXCEPT ![c][id.n] = NoDoc]
    ELSE s

\* db.collection(c).replaceOne({ _id: id }, repl), no upsert.
\* No match: nothing happens.  A replacement whose _id differs from the
\* matched document's _id (a hex string is not an ObjectId) is rejected by
\* the store: _id is immutable.
ReplaceMatches(s, c, id) == id.t = "oid" /\ s[c][id.n] # NoDoc
ReplaceRejected(s, c, id, repl) ==
    /\ ReplaceMatches(s, c, id)
    /\ repl._id # NoId
    /\ repl._id # s[c][id.n]._id
ReplaceOne(s, c, id, repl) ==
    IF ReplaceMatches(s, c, id) /\ ~ReplaceRejected(s, c, id, repl)
    THEN [s EXCEPT ![c][id.n] = [repl EXCEPT !._id = s[c][id.n]._id]]
    ELSE s


\* ------------------------------------------------------------ the journal
\* one element of migrationLog.actions; a key the code leaves out is Undefined
Entry(c, a, st, id, doc, prev, upd, err) ==
    [collection |-> c, action |-> a, status |-> st, _id |-> id,
     document |-> doc, previous |-> prev, update |-> upd, error |-> err]

NoEntry == Entry(Undefined, Undefined, Undefined, NoId, NoDoc, NoDoc,
                 NoUpdate, Undefined)

\* the six records insertDocument and updateDocuments pass to logAction
InsertDry(c, doc) ==
    Entry(c, "insert", "dryRun", NoId, doc, NoDoc, NoUpdate, Undefined)
InsertSuccess(c, id, doc) ==
    Entry(c, "insert", "success", id, doc, NoDoc, NoUpdate, Undefined)
InsertError(c, doc) ==
    Entry(c, "insert", "error", NoId, doc, NoDoc, NoUpdate, "Error")
\* mutant: the dry-run branch records the status of the normal branch
UpdateDry_success(c, doc, u) ==
    Entry(c, "update", "success", doc._id, NoDoc, doc, u, Undefined)
UpdateDry(c, doc, u) ==
    Entry(c, "update", "dryRun", doc._id, NoDoc, doc, u, Undefined)
UpdateSuccess(c, doc, u) ==
    Entry(c, "update", "success", doc._id, NoDoc, doc, u, Undefined)
\* mutant: the catch block records the document it failed to update
UpdateError_previous(c, doc, u) ==
    Entry(c, "update", "error", doc._id, NoDoc, doc, u, "Error")
UpdateError(c, doc, u) ==
    Entry(c, "update", "error", doc._id, NoDoc, NoDoc, u, "Error")

\* the record the catch block of insertDocument / updateDocuments logs for
\* the attempt whose try block threw
ErrorEntry(e) ==
    [e EXCEPT !.status = "error", !.error = "Error",
              !._id = IF e.action = "insert" THEN NoId ELSE @,
              !.previous = NoDoc]

\* the journal file migration_<TAG>.json
NoFile == [state |-> "absent", actions |-> <<>>]
Truncated == [state |-> "truncated", actions |-> <<>>]
\* mutant: only the record just pushed is written
Written_last(log) ==
    [state |-> "written", actions |-> JSONActions(<<log[Len(log)]>>)]
Written(log) == [state |-> "written", actions |-> JSONActions(log)]

VARIABLES
    dryRun,         \* config.dryRun
    store,          \* the collections of the document store
    nextId,         \* the next ObjectId the driver generates
    migrationLog,   \* migrationLog.actions, in memory
    file,           \* the journal file on disk
    pc,             \* position of the running process
    ctx,            \* the call site logAction returns or throws to
    pending,        \* the argument of the logAction call in progress
    docs,           \* updateDocuments: matched documents not yet processed
    curColl,        \* updateDocuments: collectionName
    opsDone,        \* planned operations completed by runMigration
    runExit,        \* exit code of the migration process (-1: running)
    faults,         \* failures injected so far
    store0,         \* the store before the run
    applied,        \* mutations the store has applied during the run
    writeFailed,    \* a writeFileSync of the run has thrown
    calls,          \* the operations runMigration has called so far, each
                    \* with the documents its find returned
    undoArgs,       \* process.argv[2], process.argv[3] of the undo process
    migrationData,  \* undo.js: migrationData.actions
    undoQueue,      \* undoMigration: actions not yet replayed
    undoConnected,  \* undo.js holds an open store connection
    undoExit,       \* exit code of the undo process (-1: running)
    storeU,         \* the store when the undo process started
    undoFaults,     \* store failures during the undo pass in progress
    undoOps,        \* store operations the undo pass has issued, in order
    undoCount,      \* undo invocations so far
    lastUndo,       \* the last finished undo invocation
    prevUndo,       \* the finished undo invocation before lastUndo
    backup          \* legacy generation: the collection _backup_z_<TAG>

runVars == <<dryRun, store, nextId, migrationLog, file, ctx, pending, docs,
             curColl, opsDone, runExit, store0, applied, writeFailed,
                   calls>>
undoVars == <<undoArgs, migrationData, undoQueue, undoConnected, undoExit,
              storeU, undoFaults, undoOps, undoCount, lastUndo, prevUndo>>
legacyVars == <<backup>>
vars == <<runVars, undoVars, legacyVars, pc, faults>>

NoArgs == [tag |-> "none", id |-> NoFilter]

\* one finished undo invocation: its arguments, its exit code, whether it
\* opened a store connection, whether it changed the store, how many of its
\* store operations failed
UndoRun(args, code, conn, chg, nf) ==
    [args |-> args, exit |-> code, connected |-> conn, changed |-> chg,
     faults |-> nf]
NoUndo == UndoRun(NoArgs, -1, FALSE, FALSE, 0)

\* collection z holds NPre documents before the run, y none
InitStores ==
    { [c \in Colls |->
         IF c = "z"
         THEN [n \in Ids |-> IF n <= NPre THEN PreDoc(n, z[n]) ELSE NoDoc]
         ELSE EmptyColl] :
      z \in [1..NPre -> {"old", "new"}] }

Init ==
    /\ dryRun \in BOOLEAN
    /\ store \in InitStores
    /\ store0 = store
    /\ nextId = NPre + 1
    /\ migrationLog = <<>>
    /\ file = NoFile
    /\ pc = "main"
    /\ ctx = "none"
    /\ pending = NoEntry
    /\ docs = <<>>
    /\ curColl = Undefined
    /\ opsDone = 0
    /\ runExit = -1
    /\ faults = 0
    /\ applied = <<>>
    /\ writeFailed = FALSE
    /\ calls = <<>>
    /\ undoArgs = NoArgs
    /\ migrationData = <<>>
    /\ undoQueue = <<>>
    /\ undoConnected = FALSE
    /\ undoExit = -1
    /\ storeU = store
    /\ undoFaults = 0
    /\ undoOps = <<>>
    /\ undoCount = 0
    /\ lastUndo = NoUndo
    /\ prevUndo = NoUndo
    /\ backup = EmptyColl

\* a store or file-system failure may be injected
MayFail == faults < MaxFaults

\* a mutation the store applied, as the journal would identify it
Mutation(c, a, id) == [collection |-> c, action |-> a, _id |-> JSONId(id)]

\* ---------------------------------------------------------- migration run
\* insertDocument(db, c, NewDoc), up to the call of logAction
InsertDocument(c, ok) ==
    /\ pc = "main"
    /\ opsDone < MaxOps
    /\ pc' = "log_open"
    /\ IF dryRun
       THEN /\ ok
            /\ pending' = InsertDry(c, NewDoc)
            /\ ctx' = "ins_dry"
            /\ UNCHANGED <<store, nextId, faults, applied>>
       ELSE /\ nextId' = nextId + 1
            /\ IF ok
               THEN /\ store' = InsertOne(store, c, nextId, NewDoc)
                    /\ pending' = InsertSuccess(c, ObjectId(nextId),
                                       [NewDoc EXCEPT !._id = ObjectId(nextId)])
                    /\ ctx' = "ins_try"
                    /\ applied' = Append(applied,
                                         Mutation(c, "insert", ObjectId(nextId)))
                    /\ UNCHANGED faults
               ELSE /\ MayFail
                    /\ faults' = faults + 1
                    /\ pending' = InsertError(c,
                                       [NewDoc EXCEPT !._id = ObjectId(nextId)])
                    /\ ctx' = "ins_catch"
                    /\ UNCHANGED <<store, applied>>
    /\ calls' = Append(calls, [op |-> "insert", collection |-> c,
                                filter |-> Undefined, matched |-> <<>>])
    /\ UNCHANGED <<dryRun, migrationLog, file, docs, curColl, opsDone, runExit,
                   store0, writeFailed>>
    /\ UNCHANGED undoVars
    /\ UNCHANGED legacyVars

\* updateDocuments(db, c, { status: f }, UpdateInstr): the find
UpdateDocuments(c, f) ==
    /\ pc = "main"
    /\ opsDone < MaxOps
    /\ docs' = Find(store, c, f)
    /\ curColl' = c
    /\ pc' = "upd_loop"
    /\ calls' = Append(calls, [op |-> "update", collection |-> c,
                                filter |-> f,
                                matched |-> Find(store, c, f)])
    /\ UNCHANGED <<dryRun, store, nextId, migrationLog, file, ctx, pending,
                   opsDone, runExit, store0, applied, writeFailed, faults>>
    /\ UNCHANGED undoVars
    /\ UNCHANGED legacyVars

\* updateDocuments: one iteration of `for (const doc of docs)`, up to the
\* call of logAction
UpdateNext(ok) ==
    /\ pc = "upd_loop"
    /\ docs # <<>>
    /\ docs' = Tail(docs)
    /\ pc' = "log_open"
    /\ LET doc == Head(docs) IN
       IF dryRun
       THEN /\ ok
            /\ pending' = UpdateDry(curColl, doc, UpdateInstr)
            /\ ctx' = "upd_dry"
            /\ UNCHANGED <<store, faults, applied>>
       ELSE IF ok
       THEN /\ store' = UpdateOne(store, curColl, doc._id, UpdateInstr)
            /\ pending' = UpdateSuccess(curColl, doc, UpdateInstr)
            /\ ctx' = "upd_try"
            /\ applied' = Append(applied, Mutation(curColl, "update", doc._id))
            /\ UNCHANGED faults
       ELSE /\ MayFail
            /\ faults' = faults + 1
            /\ pending' = UpdateError(curColl, doc, UpdateInstr)
            /\ ctx' = "upd_catch"
            /\ UNCHANGED <<store, applied>>
    /\ UNCHANGED <<dryRun, nextId, migrationLog, file, curColl, opsDone,
                   runExit, store0, writeFailed, calls>>
    /\ UNCHANGED undoVars
    /\ UNCHANGED legacyVars

\* updateDocuments returns after the last matched document
UpdateDone ==
    /\ pc = "upd_loop"
    /\ docs = <<>>
    /\ pc' = "main"
    /\ opsDone' = opsDone + 1
    /\ UNCHANGED <<dryRun, store, nextId, migrationLog, file, ctx, pending,
                   docs, curColl, runExit, store0, applied, writeFailed, faults,
                   calls>>
    /\ UNCHANGED undoVars
    /\ UNCHANGED legacyVars

\* mutant: the catch block rethrows after it has logged the error record
LogReturns_rethrow ==
    IF ctx \in {"ins_catch", "upd_catch"}
    THEN /\ pc' = "undo_idle"
         /\ ctx' = "none"
         /\ pending' = NoEntry
         /\ runExit' = 1
         /\ UNCHANGED opsDone
    ELSE /\ pc' = IF ctx = "ins_dry" \/ ctx = "ins_try" THEN "main"
                  ELSE "upd_loop"
         /\ opsDone' = IF ctx = "ins_dry" \/ ctx = "ins_try"
                       THEN opsDone + 1 ELSE opsDone
         /\ ctx' = "none"
         /\ pending' = NoEntry
         /\ UNCHANGED runExit

\* `await logAction(...)` resolves: control is back at the call site
LogReturns ==
    /\ pc' = IF ctx \in {"ins_dry", "ins_try", "ins_catch"} THEN "main"
             ELSE "upd_loop"
    /\ opsDone' = IF ctx \in {"ins_dry", "ins_try", "ins_catch"}
                  THEN opsDone + 1 ELSE opsDone
    /\ ctx' = "none"
    /\ pending' = NoEntry
    /\ UNCHANGED runExit

\* writeFileSync throws out of logAction: inside a try block the catch block
\* logs an error record for the same attempt; anywhere else the rejection
\* reaches runMigration().catch and the process exits with code 1
LogThrows ==
    IF ctx \in {"ins_try", "upd_try"}
    THEN /\ pc' = "log_open"
         /\ ctx' = IF ctx = "ins_try" THEN "ins_catch" ELSE "upd_catch"
         /\ pending' = ErrorEntry(pending)
         /\ UNCHANGED <<opsDone, runExit>>
    ELSE /\ pc' = "undo_idle"
         /\ ctx' = "none"
         /\ pending' = NoEntry
         /\ runExit' = 1
         /\ UNCHANGED opsDone

\* logAction: the push, and writeFileSync opening the file for writing
\* (flag 'w': an existing file is truncated)
LogActionOpen(ok) ==
    /\ pc = "log_open"
    /\ migrationLog' = Append(migrationLog, pending)
    /\ IF ok
       THEN /\ file' = Truncated
            /\ pc' = "log_write"
            /\ UNCHANGED <<ctx, pending, opsDone, runExit, faults, writeFailed>>
       ELSE /\ MayFail
            /\ faults' = faults + 1
            /\ writeFailed' = TRUE
            /\ LogThrows
            /\ UNCHANGED file
    /\ UNCHANGED <<dryRun, store, nextId, docs, curColl, store0, applied,
                   calls>>
    /\ UNCHANGED undoVars
    /\ UNCHANGED legacyVars

\* logAction: writeFileSync writing the serialised migrationLog
LogActionWrite(ok) ==
    /\ pc = "log_write"
    /\ IF ok
       THEN /\ file' = Written(migrationLog)
            /\ LogReturns
            /\ UNCHANGED <<faults, writeFailed>>
       ELSE /\ MayFail
            /\ faults' = faults + 1
            /\ writeFailed' = TRUE
            /\ LogThrows
            /\ UNCHANGED file
    /\ UNCHANGED <<dryRun, store, nextId, migrationLog, docs, curColl, store0,
                   applied, calls>>
    /\ UNCHANGED undoVars
    /\ UNCHANGED legacyVars

\* runMigration: client.close() after the last planned operation, exit 0
RunClose ==
    /\ pc = "main"
    /\ pc' = "undo_idle"
    /\ runExit' = 0
    /\ UNCHANGED <<dryRun, store, nextId, migrationLog, file, ctx, pending,
                   docs, curColl, opsDone, store0, applied, writeFailed, faults,
                   calls>>
    /\ UNCHANGED undoVars
    /\ UNCHANGED legacyVars


\* ------------------------------------------------------------------ undo
\* String(a._id): a hex string stays, a missing key reads "undefined"
UndefinedString == [t |-> "string", n |-> 0]
StringOf(id) ==
    IF id.t = "undefined" THEN UndefinedString
    ELSE IF id.t = "oid" THEN HexString(id.n)
    ELSE id

\* process.argv[2]: no tag, the tag of the run, a tag no run has used
Tags == {"none", "run", "other"}
\* process.argv[3]: absent, or a string: "undefined", or an identifier that
\* occurs in the journal
FilterIds ==
    {NoFilter, UndefinedString}
        \cup ({file.actions[i]._id : i \in 1..Len(file.actions)} \ {NoId})

\* mutant: the path is built without the tag, any journal file satisfies it
FileExists_anyTag(tag) == file.state # "absent"

\* fs.existsSync(FILE_PATH)
FileExists(tag) == tag = "run" /\ file.state # "absent"

\* FILTER_ID ? migrationData.actions.filter(a => String(a._id) === FILTER_ID)
\*           : migrationData.actions
Selected(a, fid) == StringOf(a._id) = fid
\* mutant: FILTER_ID is ignored
UndoCandidates_all(actions, fid) == actions
\* mutant: the selected actions are replayed newest first
RECURSIVE Reversed(_)
Reversed(q) == IF q = <<>> THEN <<>> ELSE Append(Reversed(Tail(q)), Head(q))
UndoCandidates_newestFirst(actions, fid) ==
    IF fid = NoFilter THEN Reversed(actions)
    ELSE Reversed(SelectSeq(actions, LAMBDA a : Selected(a, fid)))
UndoCandidates(actions, fid) ==
    IF fid = NoFilter THEN actions
    ELSE SelectSeq(actions, LAMBDA a : Selected(a, fid))

\* the conditions of the two `if` statements of the undo loop
IsDelete(a) == a.action = "insert" /\ a.status = "success"
\* mutant: the status of the action is not looked at
IsRestore_anyStatus(a) == a.action = "update" /\ a.previous # NoDoc
IsRestore(a) == a.action = "update" /\ a.status = "success" /\ a.previous # NoDoc

\* the store after the body of the undo loop ran for action a without an
\* injected failure (a rejected replaceOne is caught and logged)
UndoOne(s, a) ==
    IF IsDelete(a) THEN DeleteOne(s, a.collection, NewObjectId(a._id))
    ELSE IF IsRestore(a)
    THEN ReplaceOne(s, a.collection, NewObjectId(a._id), a.previous)
    ELSE s

\* the store operation the body of the undo loop issues for action a
UndoOps(a) ==
    IF IsDelete(a)
    THEN <<[op |-> "deleteOne", collection |-> a.collection,
            _id |-> NewObjectId(a._id)]>>
    ELSE IF IsRestore(a)
    THEN <<[op |-> "replaceOne", collection |-> a.collection,
            _id |-> NewObjectId(a._id)]>>
    ELSE <<>>

\* undo.js up to the call of undoMigration(): the argument check, the
\* existsSync check, JSON.parse of the journal file
UndoStartup(tag, fid) ==
    /\ pc = "undo_idle"
    /\ undoCount < MaxUndos
    /\ tag # "run" => fid = NoFilter
    \* the operator repeats the command line of the first invocation
    /\ undoCount > 0 => lastUndo.args = [tag |-> tag, id |-> fid]
    /\ undoCount' = undoCount + 1
    /\ LET args == [tag |-> tag, id |-> fid] IN
       IF tag = "none" \/ ~FileExists(tag) \/ file.state = "truncated"
       THEN /\ undoExit' = 1
            /\ lastUndo' = UndoRun(args, 1, FALSE, FALSE, 0)
            /\ prevUndo' = lastUndo
            /\ UNCHANGED <<pc, undoArgs, migrationData, storeU, undoOps>>
       ELSE /\ undoExit' = -1
            /\ undoArgs' = args
            /\ migrationData' = file.actions
            /\ storeU' = store
            /\ undoOps' = <<>>
            /\ pc' = "undo_connect"
            /\ UNCHANGED <<lastUndo, prevUndo>>
    /\ UNCHANGED <<undoQueue, undoConnected, undoFaults, faults>>
    /\ UNCHANGED runVars
    /\ UNCHANGED legacyVars

\* undoMigration: connectToDBUndo() and the selection of the actions
UndoConnect ==
    /\ pc = "undo_connect"
    /\ undoConnected' = TRUE
    /\ undoQueue' = UndoCandidates(migrationData, undoArgs.id)
    /\ pc' = "undo_loop"
    /\ UNCHANGED <<undoArgs, migrationData, undoExit, storeU, undoFaults,
                   undoOps, undoCount, lastUndo, prevUndo, faults>>
    /\ UNCHANGED runVars
    /\ UNCHANGED legacyVars

\* undoMigration: one iteration of `for (const action of actions)`
UndoStep(ok) ==
    /\ pc = "undo_loop"
    /\ undoQueue # <<>>
    /\ LET a == Head(undoQueue) IN
       IF ok
       THEN /\ store' = UndoOne(store, a)
            /\ UNCHANGED <<faults, undoFaults>>
       ELSE /\ IsDelete(a) \/ IsRestore(a)
            /\ MayFail
            /\ faults' = faults + 1
            /\ undoFaults' = undoFaults + 1
            /\ UNCHANGED store
    /\ undoQueue' = Tail(undoQueue)
    /\ undoOps' = undoOps \o UndoOps(Head(undoQueue))
    /\ UNCHANGED <<pc, undoArgs, migrationData, undoConnected, undoExit,
                   storeU, undoCount, lastUndo, prevUndo>>
    /\ UNCHANGED <<dryRun, nextId, migrationLog, file, ctx, pending, docs,
                   curColl, opsDone, runExit, store0, applied, writeFailed,
                   calls>>
    /\ UNCHANGED legacyVars

\* mutant: the journal file is removed once its actions have been replayed
UndoClose_unlink ==
    /\ pc = "undo_loop"
    /\ undoQueue = <<>>
    /\ undoConnected' = FALSE
    /\ undoExit' = 0
    /\ lastUndo' = UndoRun(undoArgs, 0, TRUE, store # storeU, undoFaults)
    /\ prevUndo' = lastUndo
    /\ undoArgs' = NoArgs
    /\ migrationData' = <<>>
    /\ undoFaults' = 0
    /\ storeU' = store
    /\ pc' = "undo_idle"
    /\ file' = NoFile
    /\ UNCHANGED <<undoQueue, undoOps, undoCount, faults>>
    /\ UNCHANGED <<dryRun, store, nextId, migrationLog, ctx, pending, docs,
                   curColl, opsDone, runExit, store0, applied, writeFailed,
                   calls>>
    /\ UNCHANGED legacyVars

\* undoMigration: client.close() after the loop; the process exits with 0
UndoClose ==
    /\ pc = "undo_loop"
    /\ undoQueue = <<>>
    /\ undoConnected' = FALSE
    /\ undoExit' = 0
    /\ lastUndo' = UndoRun(undoArgs, 0, TRUE, store # storeU, undoFaults)
    /\ prevUndo' = lastUndo
    /\ undoArgs' = NoArgs
    /\ migrationData' = <<>>
    /\ undoFaults' = 0
    /\ storeU' = store
    /\ pc' = "undo_idle"
    /\ UNCHANGED <<undoQueue, undoOps, undoCount, faults>>
    /\ UNCHANGED runVars
    /\ UNCHANGED legacyVars

Next ==
    \/ \E c \in InsertColls, ok \in BOOLEAN : InsertDocument(c, ok)
    \/ \E c \in UpdateColls, f \in Filters : UpdateDocuments(c, f)
    \/ \E ok \in BOOLEAN : UpdateNext(ok)
    \/ UpdateDone
    \/ \E ok \in BOOLEAN : LogActionOpen(ok)
    \/ \E ok \in BOOLEAN : LogActionWrite(ok)
    \/ RunClose
    \/ \E tag \in Tags, fid \in FilterIds : UndoStartup(tag, fid)
    \/ UndoConnect
    \/ \E ok \in BOOLEAN : UndoStep(ok)
    \/ UndoClose

Spec == Init /\ [][Next]_vars

\* ------------------------------------------------ the legacy generation
\* The first generation keeps no journal: updateDocuments copies the
\* matching documents into _backup_<collection>_<TAG> and then calls
\* updateMany; its undo deletes from the insert collections by createdAt and
\* restores z from _backup_z_<TAG>.  It runs on the same store; the
\* variables of the journal generation stay as Init leaves them.
journalVars ==
    <<migrationLog, file, ctx, pending, docs, curColl, applied, writeFailed,
      migrationData, undoQueue, storeU, undoFaults, undoOps, lastUndo,
      prevUndo, faults>>

\* db.collection(backupName).insertMany(docs), ordered: the documents are
\* inserted one by one, a duplicate _id stops the call with an error
RECURSIVE InsertMany(_, _)
InsertMany(coll, ds) ==
    IF ds = <<>> THEN [coll |-> coll, ok |-> TRUE]
    ELSE IF coll[Head(ds)._id.n] # NoDoc THEN [coll |-> coll, ok |-> FALSE]
    ELSE InsertMany([coll EXCEPT ![Head(ds)._id.n] = Head(ds)], Tail(ds))

\* db.collection(c).updateMany({ status: f }, update)
UpdateMany(s, c, f, u) ==
    [s EXCEPT ![c] = [n \in Ids |-> IF Matches(@[n], f) THEN ApplySet(@[n], u)
                                    ELSE @[n]]]

\* db.collection(c).deleteMany({ createdAt: { $gte: <date of the tag> } })
\* when the documents the run inserted compare at or after that date
DeleteMany(s, c) ==
    [s EXCEPT ![c] = [n \in Ids |-> IF @[n] # NoDoc /\ @[n].createdAt = DateOfTag
                                    THEN NoDoc ELSE @[n]]]

\* { $set: doc } applied to a stored document: every field the snapshot has
\* is written, a field the snapshot does not have is left as it is
SetDoc(d, doc) ==
    [_id |-> d._id,
     name |-> IF doc.name # Undefined THEN doc.name ELSE d.name,
     status |-> IF doc.status # Undefined THEN doc.status ELSE d.status,
     createdAt |-> IF doc.createdAt # Undefined THEN doc.createdAt
                   ELSE d.createdAt,
     updatedAt |-> IF doc.updatedAt # Undefined THEN doc.updatedAt
                   ELSE d.updatedAt]

\* db.collection("z").bulkWrite of one
\* updateOne { filter: { _id }, update: { $set: doc }, upsert: true }
\* per document of the backup collection
BulkWriteRestore(s, bk) ==
    [s EXCEPT !["z"] = [n \in Ids |-> IF bk[n] = NoDoc THEN @[n]
                                      ELSE IF @[n] = NoDoc THEN bk[n]
                                      ELSE SetDoc(@[n], bk[n])]]

\* legacy insertDocument(db, c, NewDoc)
LegacyInsertDocument(c) ==
    /\ pc = "main"
    /\ opsDone < MaxOps
    /\ IF dryRun
       THEN UNCHANGED <<store, nextId>>
       ELSE /\ store' = InsertOne(store, c, nextId, NewDoc)
            /\ nextId' = nextId + 1
    /\ opsDone' = opsDone + 1
    /\ calls' = Append(calls, [op |-> "insert", collection |-> c,
                                filter |-> Undefined, matched |-> <<>>])
    /\ UNCHANGED <<dryRun, runExit, store0, undoArgs, undoConnected, undoExit,
                   undoCount, backup, pc>>
    /\ UNCHANGED journalVars

\* legacy updateDocuments in dry-run mode: the find and the log line
LegacyUpdateDry(c, f) ==
    /\ pc = "main"
    /\ opsDone < MaxOps
    /\ dryRun
    /\ opsDone' = opsDone + 1
    /\ calls' = Append(calls, [op |-> "update", collection |-> c,
                                filter |-> f, matched |-> Find(store, c, f)])
    /\ UNCHANGED <<dryRun, store, nextId, runExit, store0, undoArgs,
                   undoConnected, undoExit, undoCount, backup, pc>>
    /\ UNCHANGED journalVars

\* legacy updateDocuments in normal mode, first half: backupDocuments; an
\* insertMany error rejects runMigration and the process exits with code 1
BackupDocuments(c, f) ==
    /\ pc = "main"
    /\ opsDone < MaxOps
    /\ ~dryRun
    /\ calls' = Append(calls, [op |-> "update", collection |-> c,
                                filter |-> f, matched |-> Find(store, c, f)])
    /\ LET r == InsertMany(backup, Find(store, c, f)) IN
       /\ backup' = r.coll
       /\ IF r.ok
          THEN pc' = "legacy_updateMany" /\ UNCHANGED runExit
          ELSE pc' = "undo_idle" /\ runExit' = 1
    /\ UNCHANGED <<dryRun, store, nextId, opsDone, store0, undoArgs,
                   undoConnected, undoExit, undoCount>>
    /\ UNCHANGED journalVars

\* legacy updateDocuments in normal mode, second half: updateMany
LegacyUpdateMany ==
    /\ pc = "legacy_updateMany"
    /\ store' = UpdateMany(store, calls[Len(calls)].collection,
                           calls[Len(calls)].filter, UpdateInstr)
    /\ opsDone' = opsDone + 1
    /\ pc' = "main"
    /\ UNCHANGED <<dryRun, nextId, runExit, store0, calls, undoArgs,
                   undoConnected, undoExit, undoCount, backup>>
    /\ UNCHANGED journalVars

\* legacy runMigration: client.close(); the process exits with code 0
LegacyRunClose ==
    /\ pc = "main"
    /\ runExit' = 0
    /\ pc' = "undo_idle"
    /\ UNCHANGED <<dryRun, store, nextId, opsDone, store0, calls, undoArgs,
                   undoConnected, undoExit, undoCount, backup>>
    /\ UNCHANGED journalVars

\* legacy undo.js up to the deleteMany loop: the tag check and the connect
LegacyUndoStartup(tag) ==
    /\ pc = "undo_idle"
    /\ undoCount < MaxUndos
    /\ undoCount' = undoCount + 1
    /\ IF tag = "none"
       THEN /\ undoExit' = 1
            /\ UNCHANGED <<pc, undoArgs, undoConnected>>
       ELSE /\ undoExit' = -1
            /\ undoArgs' = [tag |-> tag, id |-> NoFilter]
            /\ undoConnected' = TRUE
            /\ pc' = "legacy_deleteMany"
    /\ UNCHANGED <<dryRun, store, nextId, opsDone, runExit, store0, calls,
                   backup>>
    /\ UNCHANGED journalVars

\* legacy undoMigration: the deleteMany loop over the insert collections.
\* since: the date built from the rewritten tag compares at or before the
\* createdAt the run stored (both are built by Date from a rewritten ISO
\* string, and how each is parsed decides the comparison)
LegacyUndoDelete(since) ==
    /\ pc = "legacy_deleteMany"
    /\ store' = IF since THEN DeleteMany(store, "y") ELSE store
    /\ pc' = "legacy_restore"
    /\ UNCHANGED <<dryRun, nextId, opsDone, runExit, store0, calls, undoArgs,
                   undoConnected, undoExit, undoCount, backup>>
    /\ UNCHANGED journalVars

\* the documents of _backup_z_<TAG_UNDO>: the backup collection of the run
\* for the tag of the run, no documents for any other tag
BackupDocs(tag) == IF tag = "run" THEN backup ELSE EmptyColl

\* legacy undoMigration: the restore of z, client.close(), exit code 0
LegacyUndoRestore ==
    /\ pc = "legacy_restore"
    /\ store' = BulkWriteRestore(store, BackupDocs(undoArgs.tag))
    /\ undoConnected' = FALSE
    /\ undoExit' = 0
    /\ pc' = "undo_idle"
    /\ UNCHANGED <<dryRun, nextId, opsDone, runExit, store0, calls, undoArgs,
                   undoCount, backup>>
    /\ UNCHANGED journalVars

NextLegacy ==
    \/ \E c \in InsertColls : LegacyInsertDocument(c)
    \/ \E c \in UpdateColls, f \in Filters : LegacyUpdateDry(c, f)
    \/ \E c \in UpdateColls, f \in Filters : BackupDocuments(c, f)
    \/ LegacyUpdateMany
    \/ LegacyRunClose
    \/ \E tag \in Tags : LegacyUndoStartup(tag)
    \/ \E since \in BOOLEAN : LegacyUndoDelete(since)
    \/ LegacyUndoRestore

SpecLegacy == Init /\ [][NextLegacy]_vars


\* ================================================================ claims
IsPrefix(p, q) == Len(p) <= Len(q) /\ \A i \in 1..Len(p) : p[i] = q[i]

\* the run was in normal mode, met no store rejection and no journal-write
\* failure, and ended with exit code 0
CleanRun ==
    /\ ~dryRun
    /\ runExit = 0
    /\ ~writeFailed
    /\ \A i \in 1..Len(migrationLog) : migrationLog[i].status = "success"

\* an undo invocation that ran to completion with no failing store operation
CleanUndo(u) == u.exit = 0 /\ u.faults = 0 /\ u.args.tag = "run"
FullUndo(u) == CleanUndo(u) /\ u.args.id = NoFilter

\* exactly one undo(tag) of the whole journal has completed
OneFullUndoDone ==
    pc = "undo_idle" /\ undoCount = 1 /\ FullUndo(lastUndo)

\* C1 (as claimed): after a failure-free run in normal mode, undo(tag)
\* leaves every collection equal to its content before the run.
C1_RoundTrip == (CleanRun /\ OneFullUndoDone) => store = store0

\* the document the store holds under the identifier a journal action records
DocOf(a) == store[a.collection][a._id.n]

\* C2 (as claimed): after undo(tag), the document of every successful update
\* action equals the previous state the action carries, in every field
\* (compared in the journal's own JSON representation).
C2_PreviousRestored ==
    (CleanRun /\ OneFullUndoDone) =>
        \A i \in 1..Len(file.actions) :
            IsRestore(file.actions[i]) =>
                JSONDoc(DocOf(file.actions[i])) = file.actions[i].previous

\* C3: the undo step of a successful insert action removes the document
\* with the recorded identifier from the recorded collection and changes
\* nothing else in any collection; when the document is already absent the
\* store is unchanged and the pass goes on to the next action.
C3_DeleteExactlyRecorded ==
    [][ (pc = "undo_loop" /\ undoQueue # <<>> /\ IsDelete(Head(undoQueue))
            /\ undoFaults' = undoFaults)
        => LET a == Head(undoQueue) IN
           /\ a._id.t = "hex"
           /\ store' = [store EXCEPT ![a.collection][a._id.n] = NoDoc]
           /\ pc' = "undo_loop"
           /\ undoQueue' = Tail(undoQueue) ]_vars

\* C3 witness: an undo pass has deleted an inserted document while another
\* document of the same collection is still there
C3_Witness ==
    /\ pc = "undo_loop"
    /\ \E i \in 1..Len(migrationData) :
          LET a == migrationData[i] IN
          /\ IsDelete(a)
          /\ storeU[a.collection][a._id.n] # NoDoc
          /\ store[a.collection][a._id.n] = NoDoc
          /\ \E n \in Ids : store[a.collection][n] # NoDoc

\* C4: a second undo with the same arguments, after a first one completed
\* without failing store operations, changes no collection at any step and
\* ends with exit code 0.
C4_UndoIdempotent ==
    /\ (CleanUndo(lastUndo) /\ pc \in {"undo_connect", "undo_loop"}
            /\ undoArgs = lastUndo.args)
       => store = storeU
    /\ (CleanUndo(prevUndo) /\ lastUndo.args = prevUndo.args)
       => (lastUndo.exit = 0 /\ ~lastUndo.changed)

\* C4 witness: two full undo passes completed, the first changed the store
C4_Witness ==
    /\ pc = "undo_idle" /\ undoCount = 2
    /\ FullUndo(prevUndo) /\ prevUndo.changed
    /\ lastUndo.args = prevUndo.args /\ lastUndo.exit = 0


\* the journal's identification of an action: collection, kind, identifier
Key(e) == [collection |-> e.collection, action |-> e.action, _id |-> JSONId(e._id)]
Keys(log) == [i \in 1..Len(log) |-> Key(log[i])]

\* the process is the migration run (no undo has been invoked yet)
InRun == undoCount = 0 /\ pc \in {"main", "upd_loop", "log_open", "log_write", "undo_idle"}

\* the records a dry run owes for one call: one per insert, one per document
\* of the untouched store that the update filter matches
DryRecordsOf(call) ==
    IF call.op = "insert"
    THEN <<[collection |-> call.collection, action |-> "insert", _id |-> NoId]>>
    ELSE LET m == Find(store0, call.collection, call.filter) IN
         [i \in 1..Len(m) |->
            [collection |-> call.collection, action |-> "update",
             _id |-> JSONId(m[i]._id)]]

RECURSIVE DryRecords(_)
DryRecords(cs) ==
    IF cs = <<>> THEN <<>> ELSE DryRecordsOf(Head(cs)) \o DryRecords(Tail(cs))

\* C5: a dry run never changes a collection and records only dryRun
\* status; when it has completed, the journal in memory and on disk holds
\* exactly one record per requested insert and per matched document.
C5_DryRun ==
    (dryRun /\ InRun) =>
        /\ store = store0
        /\ \A i \in 1..Len(migrationLog) : migrationLog[i].status = "dryRun"
        /\ runExit = 0 =>
              /\ Keys(migrationLog) = DryRecords(calls)
              /\ \/ migrationLog = <<>> /\ file.state = "absent"
                 \/ /\ file.state = "written"
                    /\ Keys(file.actions) = DryRecords(calls)
                    /\ \A i \in 1..Len(file.actions) :
                          file.actions[i].status = "dryRun"

\* C5 witness: a completed dry run that requested an insert and an update
\* matching two documents
C5_Witness ==
    /\ dryRun /\ InRun /\ runExit = 0
    /\ Len(calls) = 2 /\ Len(migrationLog) = 3
    /\ \E i \in 1..2 : calls[i].op = "insert"

\* C6: during undo(tag, id) only actions whose identifier reads id are
\* replayed, and every document with another identifier keeps the content
\* it had when the undo started.
C6_FilteredUndo ==
    (pc \in {"undo_connect", "undo_loop"} /\ undoArgs.id # NoFilter) =>
        /\ \A i \in 1..Len(undoQueue) : StringOf(undoQueue[i]._id) = undoArgs.id
        /\ \A c \in Colls, n \in Ids :
              HexString(n) # undoArgs.id => store[c][n] = storeU[c][n]

\* C6 witness: a filtered undo has replayed its actions and changed the
\* store while the journal also holds a successful action of another document
C6_Witness ==
    /\ pc = "undo_loop" /\ undoQueue = <<>> /\ undoArgs.id # NoFilter
    /\ store # storeU
    /\ \E i \in 1..Len(migrationData) :
          /\ migrationData[i].status = "success"
          /\ migrationData[i]._id # undoArgs.id

\* C7 (as claimed): once a write of the journal file has failed, the run
\* applies no further store mutation and does not end with exit code 0.
C7_StopOnJournalFailure ==
    [][ (writeFailed /\ runExit = -1) => (store' = store /\ runExit' # 0) ]_vars

\* the success records of the persisted journal
PersistedSuccess == SelectSeq(file.actions, LAMBDA a : a.status = "success")

\* C8 (as claimed): at every point of the run the success records on disk
\* are mutations the store applied, in order, and at most one applied
\* mutation has no success record on disk.
C8_CrashConsistent ==
    (runExit = -1) =>
        /\ IsPrefix(Keys(PersistedSuccess), applied)
        /\ Len(applied) - Len(PersistedSuccess) <= 1

\* C9: the in-memory action sequence only grows at its end, and whenever
\* logAction has returned (control is back in insertDocument,
\* updateDocuments or runMigration) the journal file holds the serialised
\* form of the whole sequence, in order.
C9_JournalDurable ==
    [][ /\ IsPrefix(migrationLog, migrationLog')
        /\ (pc' \in {"main", "upd_loop"} \/ runExit' = 0) =>
              \/ migrationLog' = <<>> /\ file'.state = "absent"
              \/ /\ file'.state = "written"
                 /\ Len(file'.actions) = Len(migrationLog')
                 /\ \A i \in 1..Len(migrationLog') :
                       file'.actions[i] = JSONEntry(migrationLog'[i])
                 /\ (file.state = "written" /\ pc \in {"main", "upd_loop"})
                       => IsPrefix(file.actions, file'.actions) ]_vars

\* C9 witness: logAction has returned three times
C9_Witness ==
    /\ pc = "main" /\ runExit = -1
    /\ Len(migrationLog) = 3 /\ file.state = "written" /\ Len(file.actions) = 3

\* the journal file the undo arguments name does not exist, or no tag is given
NoJournalFor(args) == args.tag = "none" \/ args.tag # "run" \/ file.state = "absent"

\* C10: the undo process holds a store connection and changes the store
\* only when a tag was given and the journal file of that tag exists; an
\* invocation without tag or without journal file ends with exit code 1,
\* never having connected or changed anything.
C10_UndoStartupChecks ==
    /\ (undoConnected \/ pc \in {"undo_connect", "undo_loop"})
          => ~NoJournalFor(undoArgs)
    /\ \A u \in {lastUndo, prevUndo} :
          (u # NoUndo /\ NoJournalFor(u.args))
             => (u.exit = 1 /\ ~u.connected /\ ~u.changed)

\* C10 witness: after a run that left a journal and changed the store, undo
\* of a tag that has no journal file has ended twice with exit code 1
C10_Witness ==
    /\ pc = "undo_idle" /\ file.state = "written" /\ store # store0
    /\ prevUndo.args.tag = "other" /\ prevUndo.exit = 1
    /\ lastUndo.args.tag = "other" /\ lastUndo.exit = 1

\* the records of the journal, in memory and on disk
Records ==
    {migrationLog[i] : i \in 1..Len(migrationLog)}
        \cup {file.actions[i] : i \in 1..Len(file.actions)}

\* C11 (as claimed): a record of the journal carries a previous-state
\* document if and only if its kind is update and its status is success.
C11_PreviousIffUpdateSuccess ==
    \A e \in Records :
        e.previous # NoDoc <=> (e.action = "update" /\ e.status = "success")

\* C11 (amended): a record of the journal carries a previous-state document
\* if and only if its kind is update and its status is success or dryRun;
\* no insert record and no error record carries one.
C11_PreviousIffUpdateNotError ==
    \A e \in Records :
        e.previous # NoDoc
            <=> (e.action = "update" /\ e.status \in {"success", "dryRun"})

\* C11 witness: the journal file of a dry run holds an update record with
\* the matched document as its previous state
C11_Witness ==
    /\ dryRun
    /\ file.state = "written"
    /\ \E i \in 1..Len(file.actions) :
          /\ file.actions[i].action = "update"
          /\ file.actions[i].status = "dryRun"
          /\ file.actions[i].previous = JSONDoc(store[file.actions[i].collection][file.actions[i]._id.n])

\* the number of document-level mutations the calls made so far have
\* attempted: one per insertDocument call, one per matched document that an
\* updateDocuments loop has taken up
RECURSIVE Planned(_)
Planned(cs) ==
    IF cs = <<>> THEN 0
    ELSE (IF Head(cs).op = "insert" THEN 1 ELSE Len(Head(cs).matched))
             + Planned(Tail(cs))
Attempts == Planned(calls) - Len(docs)

\* C12 (as claimed): in normal mode every attempted document-level mutation
\* has exactly one record in the journal once its logAction call is over,
\* and never more than one, whatever store or journal-write failures occur.
C12_OneRecordPerAttempt ==
    ~dryRun =>
        /\ Len(migrationLog) <= Attempts
        /\ pc \notin {"log_open", "log_write"} => Len(migrationLog) = Attempts

\* the store rejects the insertOne / updateOne of the step
StoreRejects == pc \in {"main", "upd_loop"} /\ faults' = faults + 1

\* C13: in normal mode, when the store rejects a single insert or update,
\* the store is left unchanged and the attempt is handed to logAction with
\* status error and an error detail; once that record is written the run
\* goes on where it was (the remaining matched documents keep their place
\* in the loop, the process has not exited), and whenever control is back in
\* runMigration with no journal write failed, every matched document of
\* every call made so far has its record.
C13_FailureIsolation ==
    [][ /\ StoreRejects =>
             /\ store' = store
             /\ pending'.status = "error"
             /\ pending'.error # Undefined
             /\ pc' = "log_open"
        /\ (pc = "log_write" /\ ctx \in {"ins_catch", "upd_catch"}
                /\ ~writeFailed') =>
             /\ migrationLog[Len(migrationLog)].status = "error"
             /\ file'.actions = JSONActions(migrationLog)
             /\ pc' = IF ctx = "ins_catch" THEN "main" ELSE "upd_loop"
             /\ docs' = docs
             /\ runExit' = -1
        /\ (~dryRun /\ ~writeFailed' /\ pc' = "main") =>
             Len(migrationLog') = Planned(calls') ]_vars

\* C13 witness: a run ended with exit code 0 in which the update of the
\* first matched document was rejected (it is unchanged in the store) and
\* the next matched document was updated after it
C13_Witness ==
    /\ runExit = 0
    /\ ~writeFailed
    /\ \E i \in 1..Len(migrationLog), j \in 1..Len(migrationLog) :
          /\ i < j
          /\ migrationLog[i].action = "update"
          /\ migrationLog[i].status = "error"
          /\ store["z"][migrationLog[i]._id.n] = store0["z"][migrationLog[i]._id.n]
          /\ migrationLog[j].action = "update"
          /\ migrationLog[j].status = "success"
          /\ store["z"][migrationLog[j]._id.n].status = "new"
          /\ store0["z"][migrationLog[j]._id.n].status = "old"

\* the actions of the parsed journal the running undo pass has to replay,
\* in journal order
JournalCandidates ==
    SelectSeq(migrationData,
              LAMBDA a : undoArgs.id = NoFilter \/ StringOf(a._id) = undoArgs.id)

\* the store operations a replay of the actions q issues, one after another
RECURSIVE OpsOf(_)
OpsOf(q) == IF q = <<>> THEN <<>> ELSE UndoOps(Head(q)) \o OpsOf(Tail(q))

\* the undo pass is in its loop
InUndoLoop == pc = "undo_loop"

\* the step the undo pass takes next: the replay of the next action when
\* the store answers, or the close after the last one
UndoPassStep == UndoStep(TRUE) \/ UndoClose

\* the undo pass in progress has taken the first k candidates in journal
\* order, has issued exactly their inverse operations, each once and in that
\* order, and the rest of the candidates is still to come
ReplayedInOrder ==
    InUndoLoop =>
        LET cands == JournalCandidates
            k == Len(cands) - Len(undoQueue) IN
        /\ k >= 0
        /\ undoQueue = SubSeq(cands, k + 1, Len(cands))
        /\ undoOps = OpsOf(SubSeq(cands, 1, k))

\* C14: undo replays the candidate actions in journal order, the inverse of
\* each is attempted exactly once; whether an inverse operation fails or
\* not, the loop goes on to the next candidate (each step of the loop
\* shortens the list of actions still to come, and the pass is never stuck);
\* the pass ends only when no candidate is left, and then with exit code 0.
C14_BestEffortOrdered ==
    /\ []ReplayedInOrder
    /\ [][ /\ (InUndoLoop /\ undoQueue # <<>>) =>
                 /\ pc' = "undo_loop"
                 /\ undoQueue' = Tail(undoQueue)
                 /\ undoExit' = -1
           /\ (InUndoLoop /\ pc' # "undo_loop") =>
                 /\ undoQueue = <<>>
                 /\ undoExit' = 0
                 /\ lastUndo'.exit = 0
                 /\ lastUndo'.faults = undoFaults ]_vars
    /\ [](InUndoLoop => ENABLED UndoPassStep)

\* C14 witness: an undo of the whole journal ended with exit code 0; the
\* delete of the first inserted document failed (the document is still
\* there), the delete of the second one was still carried out
C14_Witness ==
    /\ pc = "undo_idle"
    /\ lastUndo.exit = 0
    /\ lastUndo.faults = 1
    /\ lastUndo.args.id = NoFilter
    /\ \E i \in 1..Len(file.actions), j \in 1..Len(file.actions) :
          /\ i < j
          /\ IsDelete(file.actions[i])
          /\ IsDelete(file.actions[j])
          /\ store["y"][file.actions[i]._id.n] # NoDoc
          /\ store["y"][file.actions[j]._id.n] = NoDoc

\* C15: the undo loop issues no store operation for an action whose status
\* is dryRun or error, whatever identifier and previous-state document the
\* record carries: the step leaves the store as it is and nothing can fail
\* in it; an undo of the journal of a dry run issues no store operation at
\* all and leaves every collection as it was before the run.
C15_NoUndoOfDryOrError ==
    /\ [][ (InUndoLoop /\ undoQueue # <<>>
                /\ Head(undoQueue).status \in {"dryRun", "error"}) =>
             /\ undoOps' = undoOps
             /\ store' = store
             /\ undoFaults' = undoFaults ]_vars
    /\ []((dryRun /\ undoCount > 0) => (undoOps = <<>> /\ store = store0))

\* C15 witness: an undo of the whole journal of a dry run has ended; the
\* journal holds an update record with an identifier and a previous-state
\* document, and the store is what it was before the run
C15_Witness ==
    /\ dryRun
    /\ pc = "undo_idle"
    /\ lastUndo.connected
    /\ lastUndo.args.id = NoFilter
    /\ store = store0
    /\ \E i \in 1..Len(file.actions) :
          /\ file.actions[i].action = "update"
          /\ file.actions[i].status = "dryRun"
          /\ file.actions[i]._id # NoId
          /\ file.actions[i].previous # NoDoc

\* an updateDocuments call of a normal-mode run in which nothing has failed
\* is in progress
LastCall == calls[Len(calls)]
InUpdateCall ==
    /\ ~dryRun
    /\ faults = 0
    /\ calls # <<>>
    /\ LastCall.op = "update"
    /\ \/ pc = "upd_loop"
       \/ pc \in {"log_open", "log_write"} /\ ctx = "upd_try"

\* the documents the call in progress has taken up so far are the first k
\* the find returned; the rest of them, as found, is still to come; the
\* journal ends with one success record for each document taken up and
\* logged, in the order of the find, with the document as found as previous
MatchedInOrder ==
    InUpdateCall =>
        LET M == LastCall.matched
            k == Len(M) - Len(docs)
            r == IF pc = "log_open" THEN k - 1 ELSE k
            n == Len(migrationLog) IN
        /\ r >= 0 /\ r <= n
        /\ docs = SubSeq(M, k + 1, Len(M))
        /\ \A i \in 1..r :
              LET e == migrationLog[n - r + i] IN
              /\ e.collection = LastCall.collection
              /\ e.action = "update"
              /\ e.status = "success"
              /\ e._id = M[i]._id
              /\ e.previous = M[i]
        /\ \A i \in 1..Len(M), j \in 1..Len(M) :
              M[i]._id = M[j]._id => i = j

\* C16: in normal mode, with nothing failing, updateDocuments evaluates its
\* filter once (the documents still to be processed are always the rest of
\* that one result); each step of its loop applies the update to the
\* document with the identifier of the next matched document and to no
\* other document of any collection; no other step of the call changes the
\* store; the journal receives one success record per matched document, in
\* matched order.
C16_UpdateMatchedOnce ==
    /\ []MatchedInOrder
    /\ [][ (InUpdateCall /\ faults' = faults) =>
             IF pc = "upd_loop" /\ docs # <<>>
             THEN /\ docs' = Tail(docs)
                  /\ store' = [store EXCEPT
                                  ![curColl][Head(docs)._id.n] =
                                      ApplySet(@, UpdateInstr)]
             ELSE /\ store' = store
                  /\ pc' # "main" => docs' = docs ]_vars

\* C16 witness: an updateDocuments call of a normal-mode run has returned
\* with nothing failed; it matched one document of z and updated it, and
\* left the other document of z, which did not match, as it was
C16_Witness ==
    /\ ~dryRun
    /\ faults = 0
    /\ pc = "main"
    /\ Len(calls) = 1
    /\ calls[1].op = "update"
    /\ Len(calls[1].matched) = 1
    /\ Len(migrationLog) = 1
    /\ \E n \in 1..NPre, m \in 1..NPre :
          /\ calls[1].matched[1]._id = ObjectId(n)
          /\ store["z"][n] = ApplySet(store0["z"][n], UpdateInstr)
          /\ store["z"][n] # store0["z"][n]
          /\ m # n
          /\ store["z"][m] = store0["z"][m]

\* the undo process is running, or the run is over and none is
InUndo == pc \in {"undo_idle", "undo_connect", "undo_loop"}

\* C17: no step of an undo invocation (full or filtered, whether its store
\* operations fail or not) writes the journal: the file after the step is
\* the file before it; the actions being replayed are the actions of the
\* file, and the candidates of every invocation are selected from the file
\* as the run left it by the arguments alone.
C17_UndoNeverWritesJournal ==
    /\ [][ InUndo =>
             /\ file' = file
             /\ (pc = "undo_connect" =>
                    undoQueue' =
                        SelectSeq(file.actions,
                                  LAMBDA a : \/ undoArgs.id = NoFilter
                                             \/ StringOf(a._id) = undoArgs.id))
           ]_vars
    /\ []((pc \in {"undo_connect", "undo_loop"}) => migrationData = file.actions)
    /\ []((InUndo /\ ~writeFailed /\ migrationLog # <<>>) =>
              file = [state |-> "written", actions |-> JSONActions(migrationLog)])

\* C17 witness: two undo invocations over a written journal have ended, one
\* of the store operations of the first one failed
C17_Witness ==
    /\ pc = "undo_idle"
    /\ undoCount = 2
    /\ prevUndo.exit = 0
    /\ prevUndo.faults = 1
    /\ lastUndo.exit = 0
    /\ lastUndo.connected
    /\ file.state = "written"
    /\ file.actions # <<>>

\* a legacy undo for the tag of the run has ended after a legacy run in
\* normal mode that ended with exit code 0
LegacyUndone ==
    /\ ~dryRun
    /\ runExit = 0
    /\ pc = "undo_idle"
    /\ undoExit = 0
    /\ undoArgs.tag = "run"

\* C18 (as claimed): in normal mode, when the bulk update is about to be
\* applied, _backup_z_<tag> holds a verbatim copy of every document that
\* matches the filter; after a legacy run followed by the legacy undo for
\* the same tag, every document of the backup collection is in z with the
\* content of its snapshot: same fields, same values, no field added by
\* the bulk update left behind.
C18_LegacySnapshotRestores ==
    /\ pc = "legacy_updateMany" =>
           \A n \in Ids :
               Matches(store["z"][n], calls[Len(calls)].filter) =>
                   backup[n] = store["z"][n]
    /\ LegacyUndone =>
           \A n \in Ids : backup[n] # NoDoc => store["z"][n] = backup[n]
====
